---- MODULE Spec2Model ----
(***************************************************************************)
(* Model of the cleaning / validation pipeline (cleaner.py, validator.py,  *)
(* run_pipeline.py).                                                       *)
(*                                                                         *)
(* A text is a sequence of characters.  A character is a one-character     *)
(* string; a code point that has no printable ASCII spelling is written    *)
(* "chr(N)" with N its decimal code point (see Chr).  Python values are    *)
(* tagged records: [t |-> "none"], [t |-> "str", v |-> text],              *)
(* [t |-> "int", n |-> n], [t |-> "list", ref |-> object id].              *)
(***************************************************************************)
EXTENDS Integers, Sequences, FiniteSets, TLC

VARIABLES
    text,            \* text cleaner: the argument of clean_text
    decoded,         \* text cleaner: remove_html_artifacts(text), or NotCalled
    cleaned,         \* text cleaner: clean_text(text), or NotCalled
    recleaned,       \* text cleaner: clean_text(clean_text(text)), or NotCalled
    record,          \* validator: the record handed to validate_record
    required_fields, \* validator: the required_fields argument (or NoArg)
    min_lengths,     \* validator: the min_lengths argument (or NoArg)
    result,          \* validator: the ValidationResult object (or NoResult)
    op,              \* validator: the last operation applied to result
    date_str,        \* date standardizer: the argument of standardize_date
    date_out,        \* date standardizer: its return value (or NotCalled)
    heap,            \* record cleaner: the dict and list objects, by id
    heap_before,     \* record cleaner: the heap when clean_record was called
    input,           \* record cleaner: the id of the argument of clean_record
    output,          \* record cleaner: what clean_record did (or NotCalled)
    records,         \* batch validator: the argument of validate_records
    results,         \* batch validator: its return value (or NotCalled)
    raw_records,     \* pipeline: ids of the records loaded, after the limit
    cleaned_records, \* pipeline: ids of the cleaned records
    validation_results, \* pipeline: one ValidationResult per cleaned record
    valid_count,     \* pipeline: number of valid results
    invalid_count,   \* pipeline: total_records - valid_count
    written,         \* pipeline: the files written so far
    summary,         \* pipeline: the percentages of the console summary
    outcome          \* pipeline: how run_pipeline ended (or NotCalled)

validatorVars == <<record, required_fields, min_lengths, result, op>>
dateVars == <<date_str, date_out>>
cleanerVars == <<text, decoded, cleaned, recleaned>>
recordVars == <<heap, heap_before, input, output>>
batchVars == <<records, results>>
pipelineVars == <<raw_records, cleaned_records, validation_results,
                  valid_count, invalid_count, written, summary, outcome>>

vars == <<validatorVars, dateVars, cleanerVars, recordVars, batchVars,
          pipelineVars>>

-----------------------------------------------------------------------------
(* Bounds *)

MaxReasons == 3       \* add_reason is applied while fewer reasons than this
LongUrlPad == 45      \* filler characters of the URL longer than 50
MaxTokens == 3        \* tokens concatenated into a text to clean
MaxBatch == 3         \* records in the list handed to validate_records
MaxLoaded == 3        \* records in the list the pipeline loads

-----------------------------------------------------------------------------
(* Characters and texts *)

LowerLetters == <<"a","b","c","d","e","f","g","h","i","j","k","l","m",
                  "n","o","p","q","r","s","t","u","v","w","x","y","z">>
UpperLetters == <<"A","B","C","D","E","F","G","H","I","J","K","L","M",
                  "N","O","P","Q","R","S","T","U","V","W","X","Y","Z">>
Digits == <<"0","1","2","3","4","5","6","7","8","9">>

Range(s) == {s[i] : i \in DOMAIN s}

IsLower(c) == c \in Range(LowerLetters)
IsUpper(c) == c \in Range(UpperLetters)
IsLetter(c) == IsLower(c) \/ IsUpper(c)
IsDigit(c) == c \in Range(Digits)
IsAlnum(c) == IsLetter(c) \/ IsDigit(c)
LetterChars == Range(LowerLetters) \cup Range(UpperLetters)
DigitChars == Range(Digits)

\* str.lower() on one ASCII character
Lower(c) ==
    IF IsUpper(c)
    THEN LowerLetters[CHOOSE i \in DOMAIN UpperLetters : UpperLetters[i] = c]
    ELSE c

LowerText(s) == [i \in DOMAIN s |-> Lower(s[i])]

DigitVal(c) == (CHOOSE i \in DOMAIN Digits : Digits[i] = c) - 1

\* Unicode white space as str.strip() and the regex class \s see it
\* (chr(160) is the no-break space)
SpaceChars ==
    {" ", "\t", "\n", "\r", "\f", "chr(11)", "chr(28)", "chr(29)", "chr(30)",
     "chr(31)", "chr(133)", "chr(160)", "chr(5760)", "chr(8232)", "chr(8233)",
     "chr(8239)", "chr(8287)", "chr(12288)"}
        \cup {"chr(" \o ToString(n) \o ")" : n \in 8192..8202}
IsSpace(c) == c \in SpaceChars

\* text[a:b] with 1-based inclusive bounds; empty when a > b
Slice(s, a, b) == IF a > b THEN << >> ELSE SubSeq(s, a, b)

RECURSIVE LStrip(_)
LStrip(s) ==
    IF s = << >> THEN << >>
    ELSE IF IsSpace(Head(s)) THEN LStrip(Tail(s)) ELSE s

RECURSIVE RStrip(_)
RStrip(s) ==
    IF s = << >> THEN << >>
    ELSE IF IsSpace(s[Len(s)]) THEN RStrip(SubSeq(s, 1, Len(s) - 1)) ELSE s

\* str.strip()
Strip(s) == RStrip(LStrip(s))

\* the Python string a text stands for, as one TLA+ string
RECURSIVE Join(_)
Join(s) == IF s = << >> THEN "" ELSE Head(s) \o Join(Tail(s))

RECURSIVE Rep(_, _)
Rep(c, n) == IF n = 0 THEN << >> ELSE <<c>> \o Rep(c, n - 1)

\* str(n) for an int
RECURSIVE NatToText(_)
NatToText(n) ==
    IF n < 10 THEN <<Digits[n + 1]>>
    ELSE NatToText(n \div 10) \o <<Digits[(n % 10) + 1]>>

IntToText(n) == IF n < 0 THEN <<"-">> \o NatToText(0 - n) ELSE NatToText(n)

\* end of the maximal run of characters of class C starting at i: the first
\* index j >= i with s[j] \notin C, or Len(s) + 1
RECURSIVE RunEnd(_, _, _)
RunEnd(s, i, C) ==
    IF i > Len(s) THEN Len(s) + 1
    ELSE IF s[i] \in C THEN RunEnd(s, i + 1, C) ELSE i

\* str.find(c, from): first index >= i holding character c, or 0
RECURSIVE Find(_, _, _)
Find(s, c, i) ==
    IF i > Len(s) THEN 0
    ELSE IF s[i] = c THEN i ELSE Find(s, c, i + 1)

\* s[i:].startswith(p), 1-based
StartsWithAt(s, p, i) ==
    /\ i + Len(p) - 1 <= Len(s)
    /\ \A k \in DOMAIN p : s[i + k - 1] = p[k]

\* case-insensitive variant (re.IGNORECASE on ASCII literals)
StartsWithAtCI(s, p, i) ==
    /\ i + Len(p) - 1 <= Len(s)
    /\ \A k \in DOMAIN p : Lower(s[i + k - 1]) = Lower(p[k])

\* s.split(c)
RECURSIVE Split(_, _)
Split(s, c) ==
    LET j == Find(s, c, 1)
    IN  IF j = 0 THEN <<s>>
        ELSE <<Slice(s, 1, j - 1)>> \o Split(Slice(s, j + 1, Len(s)), c)

-----------------------------------------------------------------------------
(* Python values *)

NoneVal == [t |-> "none"]
StrVal(s) == [t |-> "str", v |-> s]
IntVal(n) == [t |-> "int", n |-> n]

\* str(value) for a str or an int
PyStr(val) == IF val.t = "str" THEN val.v ELSE IntToText(val.n)

-----------------------------------------------------------------------------
(* validator.py: configuration *)

REQUIRED_FIELDS == <<"title", "content", "url">>

\* a dict is the sequence of its (key, value) pairs in insertion order
DEFAULT_MIN_LENGTHS == << <<"title", 1>>, <<"content", 1>> >>

\* an Optional argument: None, or a given tuple / dict
NoArg == [given |-> FALSE]
Given(x) == [given |-> TRUE, v |-> x]

\* `arg or default`: None, the empty tuple and the empty dict are falsy
OrDefault(arg, default) ==
    IF ~arg.given THEN default
    ELSE IF arg.v = << >> THEN default ELSE arg.v

-----------------------------------------------------------------------------
(* validator.py: validate_url *)

T_http == <<"h","t","t","p">>
T_https == <<"h","t","t","p","s">>
T_localhost == <<"l","o","c","a","l","h","o","s","t">>

SchemeChars == LetterChars \cup DigitChars \cup {"+", "-", "."}
HostChars == LetterChars \cup DigitChars \cup {"-", "."}

\* urlparse(url).scheme: the text before the first ":" when it is a letter
\* followed by scheme characters, lower-cased; otherwise empty
UrlScheme(u) ==
    LET i == Find(u, ":", 1)
    IN  IF /\ i > 1
           /\ IsLetter(u[1])
           /\ \A k \in 1..(i - 1) : u[k] \in SchemeChars
        THEN LowerText(Slice(u, 1, i - 1))
        ELSE << >>

\* what urlparse leaves after taking the scheme off
UrlAfterScheme(u) ==
    IF UrlScheme(u) = << >> THEN u
    ELSE Slice(u, Find(u, ":", 1) + 1, Len(u))

\* urlparse(url).netloc: after a leading "//", up to the first of / ? #
UrlNetloc(u) ==
    LET r == UrlAfterScheme(u)
    IN  IF StartsWithAt(r, <<"/", "/">>, 1)
        THEN Slice(r, 3, RunEnd(r, 3, Range(r) \ {"/", "?", "#"}) - 1)
        ELSE << >>

\* urlparse raises ValueError("Invalid IPv6 URL") on unbalanced brackets
UrlParseRaises(u) ==
    LET n == UrlNetloc(u)
    IN  ("[" \in Range(n)) # ("]" \in Range(n))

\* [A-Z0-9](?:[A-Z0-9-]{0,61}[A-Z0-9])? under re.IGNORECASE
IsHostLabel(l) ==
    /\ Len(l) >= 1
    /\ Len(l) <= 63
    /\ IsAlnum(l[1])
    /\ IsAlnum(l[Len(l)])
    /\ \A k \in DOMAIN l : IsAlnum(l[k]) \/ l[k] = "-"

\* (?:label\.)+[A-Z]{2,6}\.?
IsDomainName(h) ==
    LET core == IF h # << >> /\ h[Len(h)] = "." THEN Slice(h, 1, Len(h) - 1)
                ELSE h
        parts == Split(core, ".")
        tld == parts[Len(parts)]
    IN  /\ Len(parts) >= 2
        /\ Len(tld) >= 2
        /\ Len(tld) <= 6
        /\ \A k \in DOMAIN tld : IsLetter(tld[k])
        /\ \A k \in 1..(Len(parts) - 1) : IsHostLabel(parts[k])

\* \d{1,3}\.\d{1,3}\.\d{1,3}\.\d{1,3}
IsDottedQuad(h) ==
    LET parts == Split(h, ".")
    IN  /\ Len(parts) = 4
        /\ \A k \in 1..4 :
              /\ Len(parts[k]) \in 1..3
              /\ \A j \in DOMAIN parts[k] : IsDigit(parts[k][j])

\* (?:/?|[/?]\S+)$ applied to the rest of the text from index i
IsUrlTail(u, i) ==
    \/ i = Len(u) + 1
    \/ /\ i <= Len(u)
       /\ u[i] \in {"/", "?"}
       /\ \A k \in (i + 1)..Len(u) : ~IsSpace(u[k])

\* URL_PATTERN.match(u).  The host alternatives consume only HostChars and
\* what may follow them (":", "/", "?" or the end) is none of these, so the
\* host is the maximal run of HostChars after the scheme; likewise the port
\* is the maximal run of digits after ":".
URL_PATTERN(u) ==
    LET start == IF StartsWithAtCI(u, T_http \o <<":", "/", "/">>, 1) THEN 8
                 ELSE IF StartsWithAtCI(u, T_https \o <<":", "/", "/">>, 1) THEN 9
                 ELSE 0
        hostEnd == RunEnd(u, start, HostChars)
        host == Slice(u, start, hostEnd - 1)
        portEnd == IF hostEnd <= Len(u) /\ u[hostEnd] = ":"
                      /\ RunEnd(u, hostEnd + 1, DigitChars) > hostEnd + 1
                   THEN RunEnd(u, hostEnd + 1, DigitChars)
                   ELSE hostEnd
    IN  /\ start > 0
        /\ \/ IsDomainName(host)
           \/ LowerText(host) = T_localhost
           \/ IsDottedQuad(host)
        /\ IsUrlTail(u, portEnd)

validate_url(url) ==
    IF url = << >> THEN FALSE
    ELSE LET u == Strip(url)
         IN  IF u = << >> THEN FALSE
             ELSE IF UrlParseRaises(u) THEN FALSE
             ELSE IF UrlScheme(u) = << >> \/ UrlNetloc(u) = << >> THEN FALSE
             ELSE IF UrlScheme(u) \notin {T_http, T_https} THEN FALSE
             ELSE URL_PATTERN(u)

-----------------------------------------------------------------------------
(* validator.py: the three checks and validate_record *)

\* one pass of the loop body of validate_required_fields
RequiredFieldReason(rec, f) ==
    IF f \notin DOMAIN rec
    THEN <<"Missing required field: '" \o f \o "'">>
    ELSE IF rec[f].t = "none"
    THEN <<"Required field '" \o f \o "' is None">>
    ELSE IF rec[f].t = "str" /\ Strip(rec[f].v) = << >>
    THEN <<"Required field '" \o f \o "' is empty">>
    ELSE << >>

RECURSIVE RequiredLoop(_, _)
RequiredLoop(rec, fields) ==
    IF fields = << >> THEN << >>
    ELSE RequiredFieldReason(rec, Head(fields)) \o RequiredLoop(rec, Tail(fields))

validate_required_fields(rec, required) ==
    RequiredLoop(rec, OrDefault(required, REQUIRED_FIELDS))

\* mutant of ContentLengthReason: the length is taken without strip()
ContentLengthReason_NoStrip(rec, f, min_len) ==
    IF f \notin DOMAIN rec THEN << >>
    ELSE IF rec[f].t = "none" THEN << >>
    ELSE LET length == Len(PyStr(rec[f]))
         IN  IF length < min_len
             THEN <<"Field '" \o f \o "' length " \o ToString(length)
                      \o " is below minimum " \o ToString(min_len)>>
             ELSE << >>

\* one pass of the loop body of validate_content_length
ContentLengthReason(rec, f, min_len) ==
    IF f \notin DOMAIN rec THEN << >>
    ELSE IF rec[f].t = "none" THEN << >>
    ELSE LET length == Len(Strip(PyStr(rec[f])))
         IN  IF length < min_len
             THEN <<"Field '" \o f \o "' length " \o ToString(length)
                      \o " is below minimum " \o ToString(min_len)>>
             ELSE << >>

RECURSIVE LengthLoop(_, _)
LengthLoop(rec, items) ==
    IF items = << >> THEN << >>
    ELSE ContentLengthReason(rec, Head(items)[1], Head(items)[2])
            \o LengthLoop(rec, Tail(items))

validate_content_length(rec, mins) ==
    LengthLoop(rec, OrDefault(mins, DEFAULT_MIN_LENGTHS))

\* url_val[:50] + "..." when url_val is longer than 50
UrlDisplay(url_val) ==
    IF Len(url_val) > 50 THEN Join(Slice(url_val, 1, 50)) \o "..."
    ELSE Join(url_val)

\* mutant of UrlFormatReasons: a blank url is handed to validate_url too
UrlFormatReasons_BlankReported(rec) ==
    IF "url" \in DOMAIN rec /\ rec["url"].t # "none"
    THEN LET url_val == Strip(PyStr(rec["url"]))
         IN  IF ~validate_url(url_val)
             THEN <<"Invalid URL format: '" \o UrlDisplay(url_val) \o "'">>
             ELSE << >>
    ELSE << >>

\* the "URL format" block of validate_record
UrlFormatReasons(rec) ==
    IF "url" \in DOMAIN rec /\ rec["url"].t # "none"
    THEN LET url_val == Strip(PyStr(rec["url"]))
         IN  IF url_val # << >> /\ ~validate_url(url_val)
             THEN <<"Invalid URL format: '" \o UrlDisplay(url_val) \o "'">>
             ELSE << >>
    ELSE << >>

\* ValidationResult(is_valid=..., reasons=...)
ValidationResult(is_valid, reasons) ==
    [is_valid |-> is_valid, reasons |-> reasons]

\* mutant of validate_record: is_valid is computed before the URL and the
\* length reasons are appended
validate_record_EarlyFlag(rec, required, mins) ==
    LET req == OrDefault(required, REQUIRED_FIELDS)
        ml == OrDefault(mins, DEFAULT_MIN_LENGTHS)
        reasons == validate_required_fields(rec, Given(req))
    IN  ValidationResult(Len(reasons) = 0,
                         reasons \o UrlFormatReasons(rec)
                                 \o validate_content_length(rec, Given(ml)))

\* mutant of validate_record: the length check runs before the URL check
validate_record_LengthFirst(rec, required, mins) ==
    LET req == OrDefault(required, REQUIRED_FIELDS)
        ml == OrDefault(mins, DEFAULT_MIN_LENGTHS)
        reasons == validate_required_fields(rec, Given(req))
                      \o validate_content_length(rec, Given(ml))
                      \o UrlFormatReasons(rec)
    IN  ValidationResult(Len(reasons) = 0, reasons)

validate_record(rec, required, mins) ==
    LET req == OrDefault(required, REQUIRED_FIELDS)
        ml == OrDefault(mins, DEFAULT_MIN_LENGTHS)
        reasons == validate_required_fields(rec, Given(req))
                      \o UrlFormatReasons(rec)
                      \o validate_content_length(rec, Given(ml))
    IN  ValidationResult(Len(reasons) = 0, reasons)

\* ValidationResult.add_reason
add_reason(res, reason) == [res EXCEPT !.reasons = Append(@, reason)]


-----------------------------------------------------------------------------
(* Validator: inputs *)

\* a key that the record does not hold
Absent == [t |-> "absent"]

T_a_com == <<"a", ".", "c", "o", "m">>
T_sep == <<":", "/", "/">>

U_http_a_com == T_http \o T_sep \o T_a_com
U_https_page == T_https \o T_sep
                  \o <<"e","x","a","m","p","l","e",".","c","o","m","/","p","a","g","e">>
U_ftp_bad == <<"f","t","p">> \o T_sep \o <<"b","a","d">>
U_localhost_port == T_http \o T_sep \o T_localhost \o <<":","8","0","/","x">>
U_dotted_quad == T_http \o T_sep \o <<"1",".","2",".","3",".","4">>
U_upper == <<"H","T","T","P">> \o T_sep \o <<"A",".","C","O","M","?","q">>
U_padded == <<" ">> \o U_http_a_com \o <<" ", "\n">>
U_no_tld == T_http \o T_sep \o <<"a">>
U_bad_label == T_http \o T_sep \o <<"-">> \o T_a_com
U_bad_port == U_http_a_com \o <<":", "x">>
U_space_in_path == U_http_a_com \o <<"/", "a", " ", "b">>
U_no_scheme == T_a_com
U_long_good == U_http_a_com \o <<"/">> \o Rep("a", LongUrlPad)
U_long_bad == U_ftp_bad \o <<"/">> \o Rep("a", LongUrlPad)

\* URLs that are well formed by construction: http or https, a dotted host
\* name with a 2-6 letter last label (or localhost, or a dotted quad), an
\* optional port and path
WellFormedUrls ==
    {U_http_a_com, U_https_page, U_localhost_port, U_dotted_quad, U_upper,
     U_padded, U_long_good}

MalformedUrls ==
    {U_ftp_bad, U_no_tld, U_bad_label, U_bad_port, U_space_in_path,
     U_no_scheme, U_long_bad}

BlankTexts == {<< >>, <<" ", " ">>}

UrlValues ==
    {Absent, NoneVal, IntVal(42)}
        \cup {StrVal(u) : u \in WellFormedUrls \cup MalformedUrls \cup BlankTexts}

TextFieldValues ==
    {Absent, NoneVal, IntVal(5), StrVal(<<"T">>), StrVal(<<" ", "a", "b", " ">>)}
        \cup {StrVal(b) : b \in BlankTexts}

FieldNames == {"title", "content", "url", "author"}

\* the dict holding the given values under title, content and url, without
\* the keys whose value is Absent
RecordOf(t, c, u) ==
    LET all == [f \in {"title", "content", "url"} |->
                   IF f = "title" THEN t ELSE IF f = "content" THEN c ELSE u]
    IN  [f \in {k \in DOMAIN all : all[k] # Absent} |-> all[f]]

Records ==
    {RecordOf(t, c, u) : t \in TextFieldValues, c \in TextFieldValues,
                         u \in UrlValues}

RequiredChoices ==
    {NoArg, Given(<< >>), Given(<<"url", "title">>),
     Given(<<"content", "author">>)}

MinLengthChoices ==
    {NoArg, Given(<< >>), Given(<< <<"content", 3>>, <<"title", 2>> >>),
     Given(<< <<"url", 13>> >>)}

\* reasons handed to add_reason
ExtraReasons == {"extra reason", "Missing required field: 'title'"}

NoResult == [is_valid |-> FALSE, reasons |-> <<"<no result>">>, none |-> TRUE]
NotCalled == [t |-> "notcalled"]

-----------------------------------------------------------------------------
(* Validator: state machine *)

DateIdle == date_str = NotCalled /\ date_out = NotCalled

CleanerIdle ==
    /\ text = NotCalled
    /\ decoded = NotCalled
    /\ cleaned = NotCalled
    /\ recleaned = NotCalled

RecordIdle ==
    /\ heap = << >>
    /\ heap_before = << >>
    /\ input = 0
    /\ output = NotCalled

BatchIdle == records = << >> /\ results = NotCalled

PipelineIdle ==
    /\ raw_records = << >>
    /\ cleaned_records = << >>
    /\ validation_results = << >>
    /\ valid_count = 0
    /\ invalid_count = 0
    /\ written = {}
    /\ summary = NotCalled
    /\ outcome = NotCalled

InitValidator ==
    /\ record \in Records
    /\ required_fields \in RequiredChoices
    /\ min_lengths \in MinLengthChoices
    /\ result = NoResult
    /\ op = "none"
    /\ DateIdle
    /\ CleanerIdle
    /\ RecordIdle
    /\ BatchIdle
    /\ PipelineIdle

\* result = validate_record(record, required_fields, min_lengths)
ValidateRecord ==
    /\ op = "none"
    /\ result' = validate_record(record, required_fields, min_lengths)
    /\ op' = "validate_record"
    /\ UNCHANGED <<record, required_fields, min_lengths>>
    /\ UNCHANGED <<dateVars, cleanerVars, recordVars,
                 batchVars, pipelineVars>>

\* result.add_reason(reason)
AddReason ==
    /\ op \in {"validate_record", "add_reason"}
    /\ Len(result.reasons) < MaxReasons
    /\ \E reason \in ExtraReasons : result' = add_reason(result, reason)
    /\ op' = "add_reason"
    /\ UNCHANGED <<record, required_fields, min_lengths>>
    /\ UNCHANGED <<dateVars, cleanerVars, recordVars,
                 batchVars, pipelineVars>>

NextValidator == ValidateRecord \/ AddReason

SpecValidator == InitValidator /\ [][NextValidator]_vars


-----------------------------------------------------------------------------
(* Validator: properties *)

Returned == op = "validate_record"

\* C1: the ValidationResult returned by validate_record has is_valid true
\* if and only if its reasons sequence is empty, for every record and every
\* required_fields / min_lengths configuration.
C1_ValidIffNoReasons ==
    Returned => (result.is_valid <=> (result.reasons = << >>))

\* C1 witness: validate_record returned an invalid result holding reasons of
\* more than one check under a non-default configuration
C1_Witness ==
    /\ Returned
    /\ required_fields # NoArg
    /\ min_lengths # NoArg
    /\ ~result.is_valid
    /\ Len(result.reasons) >= 3

\* C2: is_valid == (reasons is empty) holds of a ValidationResult after
\* construction and after any sequence of add_reason operations, including
\* add_reason applied to a result constructed valid.
C2_ValidityInvariant ==
    (op # "none") => (result.is_valid <=> (result.reasons = << >>))

DefaultConfiguration == required_fields = NoArg /\ min_lengths = NoArg

\* the case of C3: title is blank text, content is non-blank text, url is a
\* well-formed http(s) URL, default configuration
BlankTitleCase ==
    /\ Returned
    /\ DefaultConfiguration
    /\ DOMAIN record = {"title", "content", "url"}
    /\ record["title"].t = "str"
    /\ record["title"].v \in BlankTexts
    /\ record["content"].t = "str"
    /\ record["content"].v \notin BlankTexts
    /\ record["url"].t = "str"
    /\ record["url"].v \in WellFormedUrls

\* C3 (as stated): for a blank title and otherwise valid fields the reasons
\* are exactly the one element "Required field 'title' is empty".
C3_OnlyEmptyReason ==
    BlankTitleCase =>
        /\ ~result.is_valid
        /\ result.reasons = <<"Required field 'title' is empty">>

\* C3 (amended): for a blank title and otherwise valid fields the result is
\* invalid and the reasons are exactly "Required field 'title' is empty"
\* followed by "Field 'title' length 0 is below minimum 1".
C3_EmptyThenLengthReason ==
    BlankTitleCase =>
        /\ ~result.is_valid
        /\ result.reasons = <<"Required field 'title' is empty",
                              "Field 'title' length 0 is below minimum 1">>

\* C3 witness: the case with a white-space-only title
C3_Witness ==
    /\ BlankTitleCase
    /\ record["title"].v = <<" ", " ">>
    /\ record["url"].v = U_http_a_com

\* the reason texts each check can produce
RequiredReasonTexts(f) ==
    {"Missing required field: '" \o f \o "'",
     "Required field '" \o f \o "' is None",
     "Required field '" \o f \o "' is empty"}

UrlReasonTexts ==
    {"Invalid URL format: 'ftp://bad'",
     "Invalid URL format: 'http://a'",
     "Invalid URL format: 'http://-a.com'",
     "Invalid URL format: 'http://a.com:x'",
     "Invalid URL format: 'http://a.com/a b'",
     "Invalid URL format: 'a.com'",
     "Invalid URL format: '42'",
     "Invalid URL format: '" \o Join(Slice(U_long_bad, 1, 50)) \o "...'"}

MinValues == {1, 2, 3, 13}

LengthReasonTexts(f) ==
    {"Field '" \o f \o "' length " \o ToString(l) \o " is below minimum "
         \o ToString(m) : l \in 0..12, m \in MinValues}

\* which check a reason belongs to: 1 required, 2 URL format, 3 length
CheckRank(r) ==
    IF \E f \in FieldNames : r \in RequiredReasonTexts(f) THEN 1
    ELSE IF r \in UrlReasonTexts THEN 2
    ELSE IF \E f \in FieldNames : r \in LengthReasonTexts(f) THEN 3
    ELSE 0

ReasonField(r) ==
    CHOOSE f \in FieldNames :
        r \in RequiredReasonTexts(f) \cup LengthReasonTexts(f)

PositionIn(seq, x) == CHOOSE k \in DOMAIN seq : seq[k] = x

\* the findings of each check, stated from the record alone
FailsRequired(rec, f) ==
    \/ f \notin DOMAIN rec
    \/ rec[f].t = "none"
    \/ rec[f].t = "str" /\ rec[f].v \in BlankTexts

HasBadUrl(rec) ==
    /\ "url" \in DOMAIN rec
    /\ \/ rec["url"] = IntVal(42)
       \/ rec["url"].t = "str" /\ rec["url"].v \in MalformedUrls

TextLength(val) ==
    IF val.t = "int" THEN Len(IntToText(val.n)) ELSE Len(Strip(val.v))

FailsLength(rec, f, m) ==
    /\ f \in DOMAIN rec
    /\ rec[f].t # "none"
    /\ TextLength(rec[f]) < m

\* C4: validate_record collects all reasons in a fixed order: the
\* required-field reasons in the listed order of required_fields, then at
\* most one URL-format reason, then the minimum-length reasons in the listed
\* order of min_lengths; every check reports its finding whatever the
\* earlier checks found, and no reason of a later check precedes a reason of
\* an earlier one.
C4_CollectAllInOrder ==
    Returned =>
        LET rs == result.reasons
            req == IF required_fields \in {NoArg, Given(<< >>)}
                   THEN <<"title", "content", "url">> ELSE required_fields.v
            mins == IF min_lengths \in {NoArg, Given(<< >>)}
                    THEN << <<"title", 1>>, <<"content", 1>> >>
                    ELSE min_lengths.v
            minFields == [k \in DOMAIN mins |-> mins[k][1]]
            ranked(n) == {i \in DOMAIN rs : CheckRank(rs[i]) = n}
        IN  /\ \A i \in DOMAIN rs : CheckRank(rs[i]) \in {1, 2, 3}
            /\ \A i, j \in DOMAIN rs :
                  i < j => CheckRank(rs[i]) <= CheckRank(rs[j])
            /\ Cardinality(ranked(2)) <= 1
            /\ \A i, j \in ranked(1) :
                  i < j => PositionIn(req, ReasonField(rs[i]))
                              < PositionIn(req, ReasonField(rs[j]))
            /\ \A i, j \in ranked(3) :
                  i < j => PositionIn(minFields, ReasonField(rs[i]))
                              < PositionIn(minFields, ReasonField(rs[j]))
            /\ \A k \in DOMAIN req :
                  FailsRequired(record, req[k])
                      <=> (\E i \in ranked(1) : ReasonField(rs[i]) = req[k])
            /\ HasBadUrl(record) <=> (ranked(2) # {})
            /\ \A k \in DOMAIN mins :
                  FailsLength(record, mins[k][1], mins[k][2])
                      <=> (\E i \in ranked(3) : ReasonField(rs[i]) = mins[k][1])

\* C4 witness: all three checks reported, two of them more than once
C4_Witness ==
    /\ Returned
    /\ Len(result.reasons) >= 5
    /\ \A n \in {1, 2, 3} :
          \E i \in DOMAIN result.reasons : CheckRank(result.reasons[i]) = n


-----------------------------------------------------------------------------
(* cleaner.py: calendar (datetime) *)

\* int(text) for a text of ASCII digits
RECURSIVE TextToNat(_)
TextToNat(s) ==
    IF s = << >> THEN 0
    ELSE 10 * TextToNat(SubSeq(s, 1, Len(s) - 1)) + DigitVal(s[Len(s)])

IsLeapYear(y) == (y % 4 = 0) /\ ((y % 100 # 0) \/ (y % 400 = 0))

DaysInMonth(y, m) ==
    IF m = 2 THEN (IF IsLeapYear(y) THEN 29 ELSE 28)
    ELSE IF m \in {4, 6, 9, 11} THEN 30 ELSE 31

\* datetime(year, month, day) does not raise ValueError
IsValidDate(y, m, d) ==
    /\ y >= 1
    /\ y <= 9999
    /\ m \in 1..12
    /\ d >= 1
    /\ d <= DaysInMonth(y, m)

Pad2Text(n) == IF n < 10 THEN <<"0">> \o NatToText(n) ELSE NatToText(n)

\* dt.strftime("%Y-%m-%d"); the inputs drawn have years of four digits
StrftimeIso(y, m, d) ==
    NatToText(y) \o <<"-">> \o Pad2Text(m) \o <<"-">> \o Pad2Text(d)

-----------------------------------------------------------------------------
(* cleaner.py: datetime.strptime as standardize_date uses it *)

MonthFullNames ==
    << <<"j","a","n","u","a","r","y">>, <<"f","e","b","r","u","a","r","y">>,
       <<"m","a","r","c","h">>, <<"a","p","r","i","l">>, <<"m","a","y">>,
       <<"j","u","n","e">>, <<"j","u","l","y">>, <<"a","u","g","u","s","t">>,
       <<"s","e","p","t","e","m","b","e","r">>, <<"o","c","t","o","b","e","r">>,
       <<"n","o","v","e","m","b","e","r">>, <<"d","e","c","e","m","b","e","r">> >>

\* the three-letter abbreviations, in month order (also the keys of
\* MONTH_NAMES and the alternation of the fallback patterns)
MonthAbbrevs == [m \in 1..12 |-> SubSeq(MonthFullNames[m], 1, 3)]

\* a format is the sequence of its directives and literal characters
FMT_Y_m_d_dash == <<"%Y", "-", "%m", "-", "%d">>
FMT_Y_m_d_slash == <<"%Y", "/", "%m", "/", "%d">>
FMT_m_d_Y_slash == <<"%m", "/", "%d", "/", "%Y">>
FMT_d_m_Y_slash == <<"%d", "/", "%m", "/", "%Y">>
FMT_d_m_Y_dash == <<"%d", "-", "%m", "-", "%Y">>
FMT_d_m_Y_dot == <<"%d", ".", "%m", ".", "%Y">>
FMT_m_d_Y_dash == <<"%m", "-", "%d", "-", "%Y">>
FMT_B_d_Y == <<"%B", " ", "%d", ",", " ", "%Y">>
FMT_b_d_Y == <<"%b", " ", "%d", ",", " ", "%Y">>
FMT_d_B_Y == <<"%d", " ", "%B", " ", "%Y">>
FMT_d_b_Y == <<"%d", " ", "%b", " ", "%Y">>

\* mutant of formats: %d/%m/%Y is tried before %m/%d/%Y
formats_DayFirst ==
    <<FMT_Y_m_d_dash, FMT_Y_m_d_slash, FMT_d_m_Y_slash, FMT_m_d_Y_slash,
      FMT_d_m_Y_dash, FMT_d_m_Y_dot, FMT_m_d_Y_dash, FMT_B_d_Y, FMT_b_d_Y,
      FMT_d_B_Y, FMT_d_b_Y>>

\* the list `formats` of standardize_date, in its order
formats ==
    <<FMT_Y_m_d_dash, FMT_Y_m_d_slash, FMT_m_d_Y_slash, FMT_d_m_Y_slash,
      FMT_d_m_Y_dash, FMT_d_m_Y_dot, FMT_m_d_Y_dash, FMT_B_d_Y, FMT_b_d_Y,
      FMT_d_B_Y, FMT_d_b_Y>>

AllDigitsAt(s, i, n) ==
    /\ i + n - 1 <= Len(s)
    /\ \A k \in i..(i + n - 1) : IsDigit(s[k])

Cand(len, key, val) == [len |-> len, key |-> key, val |-> val]

\* (?P<m>1[0-2]|0[1-9]|[1-9]): the alternatives that match at i, in order
MonthCandidates(s, i) ==
    (IF AllDigitsAt(s, i, 2) /\ s[i] = "1" /\ s[i + 1] \in {"0", "1", "2"}
     THEN <<Cand(2, "m", TextToNat(SubSeq(s, i, i + 1)))>> ELSE << >>)
    \o (IF AllDigitsAt(s, i, 2) /\ s[i] = "0" /\ s[i + 1] # "0"
        THEN <<Cand(2, "m", TextToNat(SubSeq(s, i, i + 1)))>> ELSE << >>)
    \o (IF AllDigitsAt(s, i, 1) /\ s[i] # "0"
        THEN <<Cand(1, "m", DigitVal(s[i]))>> ELSE << >>)

\* (?P<d>3[0-1]|[1-2]\d|0[1-9]|[1-9]| [1-9])
DayCandidates(s, i) ==
    (IF AllDigitsAt(s, i, 2) /\ s[i] = "3" /\ s[i + 1] \in {"0", "1"}
     THEN <<Cand(2, "d", TextToNat(SubSeq(s, i, i + 1)))>> ELSE << >>)
    \o (IF AllDigitsAt(s, i, 2) /\ s[i] \in {"1", "2"}
        THEN <<Cand(2, "d", TextToNat(SubSeq(s, i, i + 1)))>> ELSE << >>)
    \o (IF AllDigitsAt(s, i, 2) /\ s[i] = "0" /\ s[i + 1] # "0"
        THEN <<Cand(2, "d", TextToNat(SubSeq(s, i, i + 1)))>> ELSE << >>)
    \o (IF AllDigitsAt(s, i, 1) /\ s[i] # "0"
        THEN <<Cand(1, "d", DigitVal(s[i]))>> ELSE << >>)
    \o (IF i + 1 <= Len(s) /\ s[i] = " " /\ IsDigit(s[i + 1]) /\ s[i + 1] # "0"
        THEN <<Cand(2, "d", DigitVal(s[i + 1]))>> ELSE << >>)

\* (?P<Y>\d\d\d\d)
YearCandidates(s, i) ==
    IF AllDigitsAt(s, i, 4)
    THEN <<Cand(4, "Y", TextToNat(SubSeq(s, i, i + 3)))>> ELSE << >>

\* (?P<B>january|...) and (?P<b>jan|...) under re.IGNORECASE; no name is a
\* prefix of another, so at most one alternative matches
RECURSIVE NameCandidates(_, _, _, _)
NameCandidates(s, i, names, m) ==
    IF m > Len(names) THEN << >>
    ELSE (IF StartsWithAtCI(s, names[m], i)
          THEN <<Cand(Len(names[m]), "m", m)>> ELSE << >>)
            \o NameCandidates(s, i, names, m + 1)

\* \s+ (a blank of the format), longest first
RECURSIVE SpaceCandidates(_, _, _)
SpaceCandidates(s, i, n) ==
    IF n = 0 THEN << >>
    ELSE <<Cand(n, "ws", 0)>> \o SpaceCandidates(s, i, n - 1)

Candidates(s, i, token) ==
    IF token = "%Y" THEN YearCandidates(s, i)
    ELSE IF token = "%m" THEN MonthCandidates(s, i)
    ELSE IF token = "%d" THEN DayCandidates(s, i)
    ELSE IF token = "%B" THEN NameCandidates(s, i, MonthFullNames, 1)
    ELSE IF token = "%b" THEN NameCandidates(s, i, MonthAbbrevs, 1)
    ELSE IF token = " "
    THEN SpaceCandidates(s, i, RunEnd(s, i, SpaceChars) - i)
    ELSE IF i <= Len(s) /\ Lower(s[i]) = Lower(token)
    THEN <<Cand(1, "lit", 0)>> ELSE << >>

NoMatch == [ok |-> FALSE]

\* the regex compiled from a format, matched at index i from token k on:
\* the first match in backtracking order, as [ok, end, Y, m, d]
RECURSIVE FormatMatch(_, _, _, _, _)
RECURSIVE FirstMatch(_, _, _, _, _, _)
FormatMatch(s, i, fmt, k, acc) ==
    IF k > Len(fmt) THEN [acc EXCEPT !.end = i]
    ELSE FirstMatch(s, i, fmt, k, acc, Candidates(s, i, fmt[k]))

FirstMatch(s, i, fmt, k, acc, cands) ==
    IF cands = << >> THEN NoMatch
    ELSE LET c == Head(cands)
             acc2 == IF c.key = "Y" THEN [acc EXCEPT !.Y = c.val]
                     ELSE IF c.key = "m" THEN [acc EXCEPT !.m = c.val]
                     ELSE IF c.key = "d" THEN [acc EXCEPT !.d = c.val]
                     ELSE acc
             rest == FormatMatch(s, i + c.len, fmt, k + 1, acc2)
         IN  IF rest.ok THEN rest
             ELSE FirstMatch(s, i, fmt, k, acc, Tail(cands))

\* datetime.strptime(text, fmt): the parsed date, or NoMatch for ValueError
\* (no match, unconverted data remaining, or not a calendar date)
strptime(s, fmt) ==
    LET found == FormatMatch(s, 1, fmt, 1,
                             [ok |-> TRUE, end |-> 0, Y |-> 0, m |-> 0, d |-> 0])
    IN  IF ~found.ok THEN NoMatch
        ELSE IF found.end # Len(s) + 1 THEN NoMatch
        ELSE IF ~IsValidDate(found.Y, found.m, found.d) THEN NoMatch
        ELSE found


-----------------------------------------------------------------------------
(* cleaner.py: standardize_date *)

\* the first format of the list, from index k on, that parses the text
RECURSIVE TryFormats(_, _, _)
TryFormats(s, fmts, k) ==
    IF k > Len(fmts) THEN NoMatch
    ELSE LET dt == strptime(s, fmts[k])
         IN  IF dt.ok THEN dt ELSE TryFormats(s, fmts, k + 1)

\* mutant of IsMonthAbbrevAt: the month position accepts any three letters
IsMonthAbbrevAt_AnyLetters(s, i) ==
    /\ i + 2 <= Len(s)
    /\ \A k \in i..(i + 2) : IsLetter(s[k])

\* (Jan|Feb|...|Dec) under re.I matches at index i
IsMonthAbbrevAt(s, i) ==
    \E m \in 1..12 : StartsWithAtCI(s, MonthAbbrevs[m], i)

\* MONTH_NAMES.get(key, 1) with key = month_str.lower()[:3]
_parse_month_name(month_str) ==
    LET key == LowerText(Slice(month_str, 1, IF Len(month_str) < 3
                                             THEN Len(month_str) ELSE 3))
    IN  IF \E m \in 1..12 : MonthAbbrevs[m] = key
        THEN CHOOSE m \in 1..12 : MonthAbbrevs[m] = key
        ELSE 1

\* [a-z]*\.?\s+ from index i (re.I): the index after it, or 0 when the
\* white space is missing.  The classes are disjoint, so each run is maximal.
AfterMonthTail(s, i) ==
    LET lettersEnd == RunEnd(s, i, LetterChars)
        dotEnd == IF lettersEnd <= Len(s) /\ s[lettersEnd] = "."
                  THEN lettersEnd + 1 ELSE lettersEnd
        spaceEnd == RunEnd(s, dotEnd, SpaceChars)
    IN  IF spaceEnd > dotEnd THEN spaceEnd ELSE 0

\* (\d{1,2})\s+(Jan|...|Dec)[a-z]*\.?\s+(\d{4}) matched at index i:
\* [ok, day, month, year] with the groups as texts
DayMonthYearAt(s, i) ==
    LET dayEnd == IF AllDigitsAt(s, i, 2) THEN i + 2 ELSE i + 1
        monthAt == RunEnd(s, dayEnd, SpaceChars)
        yearAt == AfterMonthTail(s, monthAt + 3)
    IN  IF /\ AllDigitsAt(s, i, 1)
           /\ monthAt > dayEnd
           /\ IsMonthAbbrevAt(s, monthAt)
           /\ yearAt > 0
           /\ AllDigitsAt(s, yearAt, 4)
        THEN [ok |-> TRUE, day |-> SubSeq(s, i, dayEnd - 1),
              month |-> SubSeq(s, monthAt, monthAt + 2),
              year |-> SubSeq(s, yearAt, yearAt + 3)]
        ELSE NoMatch

\* (Jan|...|Dec)[a-z]*\.?\s+(\d{1,2}),?\s+(\d{4}) matched at index i
MonthDayYearAt(s, i) ==
    LET dayAt == IF IsMonthAbbrevAt(s, i) THEN AfterMonthTail(s, i + 3) ELSE 0
        dayEnd == IF AllDigitsAt(s, dayAt, 2) THEN dayAt + 2 ELSE dayAt + 1
        commaEnd == IF dayEnd <= Len(s) /\ s[dayEnd] = ","
                    THEN dayEnd + 1 ELSE dayEnd
        yearAt == RunEnd(s, commaEnd, SpaceChars)
    IN  IF /\ dayAt > 0
           /\ AllDigitsAt(s, dayAt, 1)
           /\ yearAt > commaEnd
           /\ AllDigitsAt(s, yearAt, 4)
        THEN [ok |-> TRUE, day |-> SubSeq(s, dayAt, dayEnd - 1),
              month |-> SubSeq(s, i, i + 2),
              year |-> SubSeq(s, yearAt, yearAt + 3)]
        ELSE NoMatch

\* re.search: the match at the leftmost index where the pattern matches
RECURSIVE SearchDayMonthYear(_, _)
SearchDayMonthYear(s, i) ==
    IF i > Len(s) THEN NoMatch
    ELSE IF DayMonthYearAt(s, i).ok THEN DayMonthYearAt(s, i)
    ELSE SearchDayMonthYear(s, i + 1)

RECURSIVE SearchMonthDayYear(_, _)
SearchMonthDayYear(s, i) ==
    IF i > Len(s) THEN NoMatch
    ELSE IF MonthDayYearAt(s, i).ok THEN MonthDayYearAt(s, i)
    ELSE SearchMonthDayYear(s, i + 1)

\* the body of `if month_match:`: the ISO text, or NoMatch on ValueError
FallbackDate(match) ==
    LET day == TextToNat(match.day)
        year == TextToNat(match.year)
        month_num == _parse_month_name(match.month)
    IN  IF match.ok /\ IsValidDate(year, month_num, day)
        THEN [ok |-> TRUE, iso |-> StrftimeIso(year, month_num, day)]
        ELSE NoMatch

\* standardize_date(date_str): StrVal(iso text) or NoneVal
standardize_date(arg) ==
    IF arg.t # "str" THEN NoneVal
    ELSE IF arg.v = << >> THEN NoneVal
    ELSE LET s == Strip(arg.v)
             exact == TryFormats(s, formats, 1)
             first == FallbackDate(SearchDayMonthYear(s, 1))
             second == FallbackDate(SearchMonthDayYear(s, 1))
         IN  IF exact.ok THEN StrVal(StrftimeIso(exact.Y, exact.m, exact.d))
             ELSE IF first.ok THEN StrVal(first.iso)
             ELSE IF second.ok THEN StrVal(second.iso)
             ELSE NoneVal


-----------------------------------------------------------------------------
(* Date standardizer: inputs and state machine *)

NumberTexts ==
    {<<"0","0">>, <<"0","1">>, <<"0","2">>, <<"0","3">>, <<"0","4">>,
     <<"1","2">>, <<"1","3">>, <<"2","9">>, <<"3","0">>, <<"3","1">>,
     <<"3">>, <<"4">>}

YearTexts == {<<"2","0","2","4">>, <<"2","0","2","3">>}

\* A<sep>B<sep>YYYY
NumericDate(a, sep, b, y) == a \o <<sep>> \o b \o <<sep>> \o y

SlashInputs ==
    {NumericDate(a, "/", b, y) : a \in NumberTexts, b \in NumberTexts,
                                 y \in YearTexts}

OtherNumericInputs ==
    {NumericDate(a, sep, b, y) : a \in NumberTexts, b \in NumberTexts,
                                 y \in YearTexts, sep \in {"-", "."}}
    \cup {NumericDate(y, sep, a, b) : a \in NumberTexts, b \in NumberTexts,
                                      y \in YearTexts, sep \in {"-", "/"}}

\* month words that hold one of the twelve abbreviations
KnownMonthWords ==
    {<<"J","a","n">>, <<"j","a","n">>, <<"J","a","n","u","a","r","y">>,
     <<"S","e","p","t">>, <<"F","E","B">>, <<"F","e","b","r","u","a","r","y">>,
     <<"D","e","c",".">>, <<"M","a","y">>, <<"X","j","a","n">>,
     <<"J","a","n","x","y">>}

\* month words that hold none of them
UnknownMonthWords ==
    {<<"X","y","z">>, <<"J","n","a">>, <<"x","y","z","w">>, <<"M","o","n">>,
     <<"X","y","z",".">>}

DayTexts == {<<"5">>, <<"1","5">>, <<"2","9">>, <<"3","1">>, <<"0">>}

\* <month> <day>[,] <year> and <day> <month> <year>
MonthDayYear(w, d, comma, y) == w \o <<" ">> \o d \o comma \o <<" ">> \o y
DayMonthYear(w, d, y) == d \o <<" ">> \o w \o <<" ">> \o y

WordInputs(words) ==
    {MonthDayYear(w, d, c, y) : w \in words, d \in DayTexts,
                                c \in {<< >>, <<",">>}, y \in YearTexts}
    \cup {DayMonthYear(w, d, y) : w \in words, d \in DayTexts, y \in YearTexts}

UnknownMonthInputs == WordInputs(UnknownMonthWords)

LooseInputs ==
    {<<"n","o","t"," ","a"," ","d","a","t","e">>, << >>, <<" ", " ">>,
     <<" ">> \o NumericDate(<<"0","3">>, "/", <<"0","4">>, <<"2","0","2","4">>)
         \o <<"\n">>,
     <<"o","n"," ","5"," "," ","j","a","n","."," ","2","0","2","4"," ","a","t">>,
     <<"1","1","5"," ","J","a","n"," ","2","0","2","4">>,
     <<"0","4","/"," ","5","/","2","0","2","4">>,
     <<"J","a","n"," "," ","5",","," ","2","0","2","4">>,
     <<"5"," ","J","a","n","u","a","r","y",","," ","2","0","2","4">>,
     <<"0","0","0","0","-","0","1","-","0","1">>}

DateArguments ==
    {StrVal(s) : s \in SlashInputs \cup OtherNumericInputs
                       \cup WordInputs(KnownMonthWords) \cup UnknownMonthInputs
                       \cup LooseInputs}
    \cup {IntVal(20240115)}

ValidatorIdle ==
    /\ record = << >>
    /\ required_fields = NoArg
    /\ min_lengths = NoArg
    /\ result = NoResult
    /\ op = "none"

InitDate ==
    /\ date_str \in DateArguments
    /\ date_out = NotCalled
    /\ ValidatorIdle
    /\ CleanerIdle
    /\ RecordIdle
    /\ BatchIdle
    /\ PipelineIdle

\* date_out = standardize_date(date_str)
StandardizeDate ==
    /\ date_out = NotCalled
    /\ date_out' = standardize_date(date_str)
    /\ UNCHANGED <<date_str, validatorVars, cleanerVars, recordVars,
                 batchVars, pipelineVars>>

NextDate == StandardizeDate

SpecDate == InitDate /\ [][NextDate]_vars


-----------------------------------------------------------------------------
(* Date standardizer: properties *)

DateReturned == date_out.t # "notcalled"

Pad2(n) == IF n < 10 THEN "0" \o ToString(n) ELSE ToString(n)

\* the canonical YYYY-MM-DD spelling of a date
IsoString(y, m, d) == ToString(y) \o "-" \o Pad2(m) \o "-" \o Pad2(d)

Returns(iso) == date_out.t = "str" /\ Join(date_out.v) = iso

\* C5: for a numeric input A/B/YYYY the MM/DD/YYYY reading is returned
\* whenever it is a valid date, also when the DD/MM/YYYY reading is valid
\* too; the DD/MM/YYYY reading is returned only when the MM/DD/YYYY reading
\* is not a valid date, and nothing is returned when neither is.
C5_MonthDayPrecedence ==
    (DateReturned /\ date_str.t = "str" /\ date_str.v \in SlashInputs) =>
        LET parts == Split(date_str.v, "/")
            a == TextToNat(parts[1])
            b == TextToNat(parts[2])
            y == TextToNat(parts[3])
        IN  /\ IsValidDate(y, a, b) => Returns(IsoString(y, a, b))
            /\ (Returns(IsoString(y, b, a)) /\ a # b) => ~IsValidDate(y, a, b)
            /\ (~IsValidDate(y, a, b) /\ IsValidDate(y, b, a))
                  => Returns(IsoString(y, b, a))
            /\ (~IsValidDate(y, a, b) /\ ~IsValidDate(y, b, a))
                  => date_out = NoneVal

\* C5 witness: standardize_date("03/04/2024") returned "2024-03-04"
C5_Witness ==
    /\ date_str = StrVal(<<"0","3","/","0","4","/","2","0","2","4">>)
    /\ Returns("2024-03-04")

\* the day and the year of an input of the month-word shapes
WordShapeDay(s) ==
    LET parts == Split(s, " ")
        word == IF IsDigit(parts[1][1]) THEN parts[1] ELSE parts[2]
    IN  TextToNat(SubSeq(word, 1, RunEnd(word, 1, DigitChars) - 1))

WordShapeYear(s) == TextToNat(SubSeq(s, Len(s) - 3, Len(s)))

-----------------------------------------------------------------------------
(* cleaner.py: characters by code point *)

\* the printable ASCII characters, code points 32..126 in order (the grave
\* accent, which a TLA+ string cannot hold, is written chr(96))
PrintableAscii ==
    <<" ","!","\"","#","$","%","&","'","(",")","*","+",",","-",".","/",
      "0","1","2","3","4","5","6","7","8","9",":",";","<","=",">","?",
      "@","A","B","C","D","E","F","G","H","I","J","K","L","M","N","O",
      "P","Q","R","S","T","U","V","W","X","Y","Z","[","\\","]","^","_",
      "chr(96)","a","b","c","d","e","f","g","h","i","j","k","l","m","n","o",
      "p","q","r","s","t","u","v","w","x","y","z","{","|","}","~">>

\* the character of a code point
Chr(n) ==
    IF n >= 32 /\ n <= 126 THEN PrintableAscii[n - 31]
    ELSE IF n = 9 THEN "\t"
    ELSE IF n = 10 THEN "\n"
    ELSE IF n = 12 THEN "\f"
    ELSE IF n = 13 THEN "\r"
    ELSE "chr(" \o ToString(n) \o ")"

\* sys.maxunicode
MaxCodePoint == 1114111

\* a call returns a value or raises
Ok(v) == [t |-> "ok", v |-> v]
Raise(exc) == [t |-> "raise", exc |-> exc]

HexDigits == <<"0","1","2","3","4","5","6","7","8","9","a","b","c","d","e","f">>
HexChars == Range(HexDigits) \cup {"A", "B", "C", "D", "E", "F"}

HexVal(c) == (CHOOSE i \in DOMAIN HexDigits : HexDigits[i] = Lower(c)) - 1

\* int(text, 16)
RECURSIVE HexToNat(_)
HexToNat(s) ==
    IF s = << >> THEN 0
    ELSE 16 * HexToNat(SubSeq(s, 1, Len(s) - 1)) + HexVal(s[Len(s)])

-----------------------------------------------------------------------------
(* cleaner.py: remove_html_tags (HTMLTagStripper on html.parser.HTMLParser) *)

\* the entities html.unescape knows among the names the texts drawn can
\* spell, with and without the closing semicolon
Html5Entities ==
    << [name |-> <<"a","m","p",";">>, char |-> "&"],
       [name |-> <<"a","m","p">>, char |-> "&"],
       [name |-> <<"l","t",";">>, char |-> "<"],
       [name |-> <<"l","t">>, char |-> "<"],
       [name |-> <<"g","t",";">>, char |-> ">"],
       [name |-> <<"g","t">>, char |-> ">"],
       [name |-> <<"n","b","s","p",";">>, char |-> "chr(160)"],
       [name |-> <<"n","b","s","p">>, char |-> "chr(160)"] >>

IsEntity(name) == \E k \in DOMAIN Html5Entities : Html5Entities[k].name = name
EntityChar(name) ==
    Html5Entities[CHOOSE k \in DOMAIN Html5Entities :
                      Html5Entities[k].name = name].char

\* the longest proper prefix of at least two characters that is an entity:
\* its length, or 0
RECURSIVE EntityPrefix(_, _)
EntityPrefix(name, x) ==
    IF x < 2 THEN 0
    ELSE IF IsEntity(SubSeq(name, 1, x)) THEN x
    ELSE EntityPrefix(name, x - 1)

\* html.unescape of a numeric reference: code points that are no characters
\* become U+FFFD, 0x0D stays, C0/C1 controls and non-characters vanish
UnescapeCodePoint(n) ==
    IF n = 0 THEN <<"chr(65533)">>
    ELSE IF n = 13 THEN <<"\r">>
    ELSE IF n >= 55296 /\ n <= 57343 THEN <<"chr(65533)">>
    ELSE IF n > MaxCodePoint THEN <<"chr(65533)">>
    ELSE IF n \in (1..8) \cup {11} \cup (14..31) \cup (127..159)
    THEN << >>
    ELSE <<Chr(n)>>

\* the characters a named reference stops at: [^\t\n\f <&#;]
EntityStopChars == {"\t", "\n", "\f", " ", "<", "&", "#", ";"}

\* html.unescape(s) from index i on
RECURSIVE Unescape(_, _)
Unescape(s, i) ==
    IF i > Len(s) THEN << >>
    ELSE IF s[i] # "&" THEN <<s[i]>> \o Unescape(s, i + 1)
    ELSE IF i + 1 <= Len(s) /\ s[i + 1] = "#"
    THEN LET decEnd == RunEnd(s, i + 2, DigitChars)
             hexAt == i + 3
             hexEnd == IF i + 2 <= Len(s) /\ s[i + 2] \in {"x", "X"}
                       THEN RunEnd(s, hexAt, HexChars) ELSE hexAt
             semi(e) == IF e <= Len(s) /\ s[e] = ";" THEN e + 1 ELSE e
         IN  IF decEnd > i + 2
             THEN UnescapeCodePoint(TextToNat(SubSeq(s, i + 2, decEnd - 1)))
                     \o Unescape(s, semi(decEnd))
             ELSE IF hexEnd > hexAt
             THEN UnescapeCodePoint(HexToNat(SubSeq(s, hexAt, hexEnd - 1)))
                     \o Unescape(s, semi(hexEnd))
             ELSE <<"&">> \o Unescape(s, i + 1)
    ELSE LET runEnd == RunEnd(s, i + 1, Range(s) \ EntityStopChars)
             nameEnd == IF runEnd > i + 33 THEN i + 33 ELSE runEnd
             end == IF nameEnd <= Len(s) /\ s[nameEnd] = ";"
                    THEN nameEnd + 1 ELSE nameEnd
             name == Slice(s, i + 1, end - 1)
             x == EntityPrefix(name, Len(name) - 1)
         IN  IF nameEnd = i + 1 THEN <<"&">> \o Unescape(s, i + 1)
             ELSE IF IsEntity(name)
             THEN <<EntityChar(name)>> \o Unescape(s, end)
             ELSE IF x > 0
             THEN <<EntityChar(SubSeq(name, 1, x))>> \o Unescape(s, i + 1 + x)
             ELSE <<"&">> \o Unescape(s, i + 1)

\* rawdata.rfind("&", lo): the last index >= lo holding "&", or 0
RECURSIVE LastAmp(_, _, _)
LastAmp(s, lo, i) ==
    IF i < lo THEN 0
    ELSE IF s[i] = "&" THEN i ELSE LastAmp(s, lo, i - 1)

\* the characters a tag name stops at: [^\t\n\r\f />\x00]
TagNameStopChars == {"\t", "\n", "\r", "\f", " ", "/", ">", "chr(0)"}

\* HTMLParser.goahead(end = False) from index i on, as feed() runs it with
\* convert_charrefs on: the concatenation of the handle_data arguments.
\* Text that the parser holds back for a later feed() or close() (a tag that
\* is not closed, a trailing "<", text after the last "&" without ";" or
\* white space behind it) never reaches handle_data, because get_text() is
\* read without close().  The texts drawn hold no "!" and no "?" (comments,
\* declarations, processing instructions) and cannot spell <script>/<style>.
RECURSIVE goahead(_, _)
goahead(rawdata, i) ==
    LET n == Len(rawdata)
        j == Find(rawdata, "<", i)
        lo == IF n - 33 > i THEN n - 33 ELSE i
        amppos == LastAmp(rawdata, lo, n)
        nameEnd == RunEnd(rawdata, j + 1, Range(rawdata) \ TagNameStopChars)
        gt == Find(rawdata, ">", j + 1)
    IN  IF i > n THEN << >>
        ELSE IF j = 0
        THEN IF /\ amppos > 0
                /\ \A k \in amppos..n : rawdata[k] \notin SpaceChars \cup {";"}
             THEN << >>
             ELSE Unescape(Slice(rawdata, i, n), 1)
        ELSE Unescape(Slice(rawdata, i, j - 1), 1) \o
             (IF j + 1 <= n /\ IsLetter(rawdata[j + 1])
              THEN \* parse_starttag
                   IF nameEnd <= n /\ rawdata[nameEnd] = "chr(0)"
                   THEN Slice(rawdata, j, nameEnd - 1) \o goahead(rawdata, nameEnd)
                   ELSE IF gt = 0 THEN << >>
                   ELSE goahead(rawdata, gt + 1)
              ELSE IF j + 1 <= n /\ rawdata[j + 1] = "/"
              THEN \* parse_endtag
                   IF gt = 0 THEN << >> ELSE goahead(rawdata, gt + 1)
              ELSE IF j + 1 <= n
              THEN <<"<">> \o goahead(rawdata, j + 1)
              ELSE << >>)

\* remove_html_tags(text) for a str
remove_html_tags(s) == IF s = << >> THEN << >> ELSE goahead(s, 1)

-----------------------------------------------------------------------------
(* cleaner.py: remove_html_artifacts *)

\* str.replace(old, new) from index i on: leftmost, non-overlapping
RECURSIVE Replace(_, _, _, _)
Replace(s, i, old, new) ==
    IF i > Len(s) THEN << >>
    ELSE IF StartsWithAt(s, old, i) THEN new \o Replace(s, i + Len(old), old, new)
    ELSE <<s[i]>> \o Replace(s, i + 1, old, new)

\* the dict `replacements` of remove_html_artifacts, in its order
EntityReplacements ==
    << << <<"&","n","b","s","p",";">>, <<" ">> >>,
       << <<"&","a","m","p",";">>, <<"&">> >>,
       << <<"&","l","t",";">>, <<"<">> >>,
       << <<"&","g","t",";">>, <<">">> >>,
       << <<"&","q","u","o","t",";">>, <<"\"">> >>,
       << <<"&","#","3","9",";">>, <<"'">> >>,
       << <<"&","a","p","o","s",";">>, <<"'">> >> >>

RECURSIVE ReplaceAll(_, _, _)
ReplaceAll(s, table, k) ==
    IF k > Len(table) THEN s
    ELSE ReplaceAll(Replace(s, 1, table[k][1], table[k][2]), table, k + 1)

\* chr(n): ValueError("chr() arg not in range(0x110000)") above sys.maxunicode
ChrCall(n) == IF n > MaxCodePoint THEN Raise("ValueError") ELSE Ok(Chr(n))

\* prepend a text to the result of the rest of a substitution
Prepend(t, rest) == IF rest.t = "ok" THEN Ok(t \o rest.v) ELSE rest

\* re.sub(r"&#(\d+);", lambda m: chr(int(m.group(1))), s) from index i on
RECURSIVE SubDecimal(_, _)
SubDecimal(s, i) ==
    LET digitsEnd == RunEnd(s, i + 2, DigitChars)
        c == ChrCall(TextToNat(SubSeq(s, i + 2, digitsEnd - 1)))
    IN  IF i > Len(s) THEN Ok(<< >>)
        ELSE IF /\ StartsWithAt(s, <<"&", "#">>, i)
                /\ digitsEnd > i + 2
                /\ digitsEnd <= Len(s)
                /\ s[digitsEnd] = ";"
        THEN IF c.t = "raise" THEN c
             ELSE Prepend(<<c.v>>, SubDecimal(s, digitsEnd + 1))
        ELSE Prepend(<<s[i]>>, SubDecimal(s, i + 1))

\* re.sub(r"&#x([0-9a-fA-F]+);", lambda m: chr(int(m.group(1), 16)), s)
RECURSIVE SubHex(_, _)
SubHex(s, i) ==
    LET digitsEnd == RunEnd(s, i + 3, HexChars)
        c == ChrCall(HexToNat(SubSeq(s, i + 3, digitsEnd - 1)))
    IN  IF i > Len(s) THEN Ok(<< >>)
        ELSE IF /\ StartsWithAt(s, <<"&", "#", "x">>, i)
                /\ digitsEnd > i + 3
                /\ digitsEnd <= Len(s)
                /\ s[digitsEnd] = ";"
        THEN IF c.t = "raise" THEN c
             ELSE Prepend(<<c.v>>, SubHex(s, digitsEnd + 1))
        ELSE Prepend(<<s[i]>>, SubHex(s, i + 1))

\* remove_html_artifacts(text) for a str: Ok(text) or Raise(exception)
remove_html_artifacts(s) ==
    IF s = << >> THEN Ok(<< >>)
    ELSE LET named == ReplaceAll(s, EntityReplacements, 1)
             decimal == SubDecimal(named, 1)
             hex == IF decimal.t = "ok" THEN SubHex(decimal.v, 1) ELSE decimal
         IN  IF hex.t = "ok" THEN Ok(remove_html_tags(hex.v)) ELSE hex

-----------------------------------------------------------------------------
(* cleaner.py: normalize_encoding, handle_special_characters,
   remove_extra_whitespace, clean_text *)

\* text with every character mapped by a table, missing characters deleted
RECURSIVE MapChars(_, _, _)
MapChars(s, from, to) ==
    IF s = << >> THEN << >>
    ELSE (IF \E k \in DOMAIN from : from[k] = Head(s)
          THEN to[CHOOSE k \in DOMAIN from : from[k] = Head(s)]
          ELSE <<Head(s)>>) \o MapChars(Tail(s), from, to)

\* normalize_encoding: the texts drawn are in NFC form already; then the
\* replacements of the no-break space, BOM and zero-width characters
normalize_encoding(s) ==
    MapChars(s,
             <<"chr(160)", "chr(65279)", "chr(8203)", "chr(8204)", "chr(8205)">>,
             << <<" ">>, << >>, << >>, << >>, << >> >>)

\* unicodedata.category(c) == "Cc"
ControlChars == {Chr(n) : n \in (0..31) \cup (127..159)}

\* handle_special_characters with its defaults: curly quotes and dashes,
\* then control characters other than \n \r \t become a blank
handle_special_characters(s) ==
    LET quoted == MapChars(s,
                     <<"chr(8216)", "chr(8217)", "chr(8220)", "chr(8221)",
                       "chr(8211)", "chr(8212)">>,
                     << <<"'">>, <<"'">>, <<"\"">>, <<"\"">>, <<"-">>, <<"-">> >>)
    IN  [k \in DOMAIN quoted |->
            IF quoted[k] \in ControlChars \ {"\n", "\r", "\t"}
            THEN " " ELSE quoted[k]]

\* re.sub(r"\s+", " ", s)
RECURSIVE CollapseSpaces(_, _)
CollapseSpaces(s, i) ==
    IF i > Len(s) THEN << >>
    ELSE IF IsSpace(s[i])
    THEN <<" ">> \o CollapseSpaces(s, RunEnd(s, i, SpaceChars))
    ELSE <<s[i]>> \o CollapseSpaces(s, i + 1)

remove_extra_whitespace(s) ==
    IF s = << >> THEN << >> ELSE Strip(CollapseSpaces(s, 1))

\* clean_text(text) with its defaults, for a str: Ok(text) or Raise(exception)
clean_text(s) ==
    IF s = << >> THEN Ok(<< >>)
    ELSE LET html == remove_html_artifacts(s)
         IN  IF html.t = "raise" THEN html
             ELSE Ok(remove_extra_whitespace(
                        handle_special_characters(normalize_encoding(html.v))))


-----------------------------------------------------------------------------
(* Text cleaner: inputs and state machine *)

HtmlTokens ==
    {<<"&","a","m","p",";">>, <<"a","m","p",";">>, <<"l","t",";">>,
     <<"&","l","t",";">>, <<"&","g","t",";">>, <<"b">>, <<" ">>,
     <<"<","b",">">>, <<"&","#","3","8",";">>}

\* the concatenations of at most n tokens
RECURSIVE TokenTexts(_)
TokenTexts(n) ==
    IF n = 0 THEN {<< >>}
    ELSE LET shorter == TokenTexts(n - 1)
         IN  shorter \cup {t \o s : t \in HtmlTokens, s \in shorter}

FixedTexts ==
    {<<"&","#","1","1","1","4","1","1","2",";">>,
     <<"a","&","#","x","1","1","0","0","0","0",";","b">>,
     <<"&","#","1","1","1","4","1","1","1",";">>,
     <<"x","&","#","1","6","0",";","&","#","x","a","0",";","y">>,
     <<"&","#","8","2","1","7",";","q","&","#","8","2","0","3",";","&","#","0",";">>,
     <<"&","#","3","8",";","l","t",";","b","&","#","3","8",";","g","t",";","x">>,
     <<"<","b",">","h","i","<","/","b",">"," ","&","a","m","p",";"," ",
       "<","i",">","b","y","e","<","/","i",">">>,
     <<" "," ","a","\t","\t","b","\n","\n","c"," "," ">>,
     <<"A","T","&","T">>,
     <<"&","a","m","p",";","n","b","s","p",";","x">>,
     <<"&","q","u","o","t",";","q","&","a","p","o","s",";","&","#","3","9",";">>,
     <<"a","<">>, <<"<","/","b",">","x">>, <<"&","#","6","0"," ","b">>,
     <<"a"," ","<"," ","b","chr(8212)","c","chr(160)">>}

CleanInputs == TokenTexts(MaxTokens) \cup FixedTexts


InitClean ==
    /\ text \in CleanInputs
    /\ decoded = NotCalled
    /\ cleaned = NotCalled
    /\ recleaned = NotCalled
    /\ ValidatorIdle
    /\ DateIdle
    /\ RecordIdle
    /\ BatchIdle
    /\ PipelineIdle

\* decoded = remove_html_artifacts(text)
RemoveHtmlArtifacts ==
    /\ decoded = NotCalled
    /\ decoded' = remove_html_artifacts(text)
    /\ UNCHANGED <<text, cleaned, recleaned>>
    /\ UNCHANGED <<validatorVars, dateVars, recordVars,
                 batchVars, pipelineVars>>

\* cleaned = clean_text(text)
CleanText ==
    /\ cleaned = NotCalled
    /\ cleaned' = clean_text(text)
    /\ UNCHANGED <<text, decoded, recleaned>>
    /\ UNCHANGED <<validatorVars, dateVars, recordVars,
                 batchVars, pipelineVars>>

\* recleaned = clean_text(cleaned)
CleanAgain ==
    /\ cleaned.t = "ok"
    /\ recleaned = NotCalled
    /\ recleaned' = clean_text(cleaned.v)
    /\ UNCHANGED <<text, decoded, cleaned>>
    /\ UNCHANGED <<validatorVars, dateVars, recordVars,
                 batchVars, pipelineVars>>

NextClean == RemoveHtmlArtifacts \/ CleanText \/ CleanAgain

SpecClean == InitClean /\ [][NextClean]_vars


-----------------------------------------------------------------------------
(* Text cleaner: properties *)

\* C7: clean is idempotent under the default configuration:
\* clean_text(clean_text(x)) = clean_text(x) for every text x, also for
\* nested entity encodings and entity-encoded angle brackets.
C7_Idempotent ==
    (recleaned.t # "notcalled") => (recleaned = cleaned)

\* C8: remove_html_artifacts and clean_text return a string for every text
\* and never raise, also for a numeric entity above the highest code point.
C8_NeverRaises ==
    /\ decoded.t # "raise"
    /\ cleaned.t # "raise"

-----------------------------------------------------------------------------
(* cleaner.py / run_pipeline.py: clean_record *)

\* a dict object and a list object of the heap; a value that is a list is a
\* reference to a list object
DictObject(items) == [kind |-> "dict", items |-> items]
ListObject(elems) == [kind |-> "list", elems |-> elems]
ListRef(id) == [t |-> "list", ref |-> id]

\* mutant of dict_copy: no copy is made, `cleaned` is the record itself
dict_copy_Alias(h, rec) == [heap |-> h, ref |-> rec]

\* record.copy(): a new dict object holding the same values (a list value is
\* the same list object)
dict_copy(h, rec) == [heap |-> Append(h, h[rec]), ref |-> Len(h) + 1]

\* body(v) with v evaluated once: a statement's value bound to a name
Bind(v, body(_)) == CHOOSE r \in {body(x) : x \in {v}} : TRUE

\* the loop over ("title", "content", "author"): the dict items with the
\* fields cleaned, or the exception clean_text raised
RECURSIVE CleanTextFields(_, _)
CleanTextFields(items, fields) ==
    IF fields = << >> THEN Ok(items)
    ELSE IF Head(fields) \in DOMAIN items /\ items[Head(fields)].t # "none"
    THEN Bind(clean_text(PyStr(items[Head(fields)])), LAMBDA c :
             IF c.t = "raise" THEN c
             ELSE CleanTextFields([items EXCEPT ![Head(fields)] = StrVal(c.v)],
                                  Tail(fields)))
    ELSE CleanTextFields(items, Tail(fields))

\* mutant of CleanDate: the date is replaced also when parsing fails
CleanDate_NoFallback(val) == standardize_date(StrVal(PyStr(val)))

\* cleaned["date"] = standardized if standardized else cleaned["date"]
CleanDate(val) ==
    Bind(standardize_date(StrVal(PyStr(val))), LAMBDA standardized :
        IF standardized.t = "str" /\ standardized.v # << >>
        THEN standardized ELSE val)

\* [clean_text(str(t)) for t in tags if t is not None]
RECURSIVE CleanTags(_)
CleanTags(elems) ==
    IF elems = << >> THEN Ok(<< >>)
    ELSE IF Head(elems).t = "none" THEN CleanTags(Tail(elems))
    ELSE Bind(clean_text(PyStr(Head(elems))), LAMBDA c :
             IF c.t = "raise" THEN c
             ELSE Prepend(<<StrVal(c.v)>>, CleanTags(Tail(elems))))

\* mutant of CleanUrl: the text is taken without strip()
CleanUrl_NoStrip(val) ==
    IF PyStr(val) = << >> THEN NoneVal ELSE StrVal(PyStr(val))

\* str(cleaned["url"]).strip() or None
CleanUrl(val) ==
    LET stripped == Strip(PyStr(val))
    IN  IF stripped = << >> THEN NoneVal ELSE StrVal(stripped)

\* an exception leaves the function with the heap as it is by then
Raised(exc, h) == [t |-> "raise", exc |-> exc.exc, heap |-> h]

\* if "date" in cleaned and cleaned["date"] is not None: ...
DateStep(items) ==
    IF "date" \in DOMAIN items /\ items["date"].t # "none"
    THEN [items EXCEPT !["date"] = CleanDate(@)] ELSE items

\* if "tags" in cleaned and isinstance(cleaned["tags"], list): the elements
\* of the new list, the exception raised, or nothing to do
TagsStep(h, items) ==
    IF "tags" \in DOMAIN items /\ items["tags"].t = "list"
    THEN CleanTags(h[items["tags"].ref].elems) ELSE [t |-> "skip"]

\* if "url" in cleaned and cleaned["url"] is not None: ...
UrlStep(items) ==
    IF "url" \in DOMAIN items /\ items["url"].t # "none"
    THEN [items EXCEPT !["url"] = CleanUrl(@)] ELSE items

\* clean_record(record) on heap h:
\* [t |-> "ok", heap |-> the heap afterwards, ref |-> the dict returned], or
\* [t |-> "raise", ...]
clean_record(h, rec) ==
    Bind(dict_copy(h, rec), LAMBDA copy :
    Bind(CleanTextFields(copy.heap[copy.ref].items,
                         <<"title", "content", "author">>), LAMBDA texts :
    IF texts.t = "raise" THEN Raised(texts, copy.heap) ELSE
    Bind(DateStep(texts.v), LAMBDA dated :
    Bind([copy.heap EXCEPT ![copy.ref] = DictObject(dated)], LAMBDA h3 :
    Bind(TagsStep(h3, dated), LAMBDA tags :
    IF tags.t = "raise" THEN Raised(tags, h3) ELSE
    Bind(IF tags.t = "ok" THEN Append(h3, ListObject(tags.v)) ELSE h3,
         LAMBDA h4 :
    Bind(IF tags.t = "ok" THEN [dated EXCEPT !["tags"] = ListRef(Len(h4))]
         ELSE dated, LAMBDA tagged :
    Bind(UrlStep(tagged), LAMBDA final :
        [t |-> "ok",
         heap |-> [h4 EXCEPT ![copy.ref] = DictObject(final)],
         ref |-> copy.ref]))))))))


-----------------------------------------------------------------------------
(* Record cleaner: inputs and state machine *)

X_markup == <<"<","b",">","h","i","<","/","b",">"," "," ","&","a","m","p",";"," ","b">>
X_spaced == <<" ","a"," "," ","b"," ">>
X_too_big == <<"&","#","1","1","1","4","1","1","2",";">>
X_encoded_tag == <<"&","l","t",";","b","&","g","t",";","t">>

D_slash == <<"0","3","/","0","4","/","2","0","2","4">>
D_iso_padded == <<" ","2","0","2","4","-","0","2","-","2","9"," ">>
D_month_name == <<"J","a","n"," ","1","5",","," ","2","0","2","4">>
D_unknown_month == <<"X","y","z"," ","5",","," ","2","0","2","4">>
D_no_such_day == <<"2","0","2","3","-","0","2","-","2","9">>
D_not_a_date == <<"n","o","t"," ","a"," ","d","a","t","e">>

TitleValues == {Absent, NoneVal, StrVal(X_markup), StrVal(X_too_big), IntVal(5)}
ContentValues == {Absent, StrVal(X_spaced)}
AuthorValues == {NoneVal, StrVal(X_encoded_tag)}

DateValues ==
    {Absent, NoneVal, IntVal(20240115), StrVal(<< >>)}
        \cup {StrVal(d) : d \in {D_slash, D_iso_padded, D_month_name,
                                 D_unknown_month, D_no_such_day, D_not_a_date}}

\* tags: absent, null, a text, or a list given by its elements
TagsValues ==
    {Absent, NoneVal, StrVal(X_spaced)}
        \cup {ListObject(e) :
                e \in {<< >>,
                       <<StrVal(X_spaced), NoneVal, StrVal(X_encoded_tag), IntVal(3)>>,
                       <<StrVal(<<"t">>), StrVal(X_too_big)>>}}

RecordUrlValues ==
    {Absent, NoneVal, StrVal(U_padded), StrVal(<<" ", " ">>), IntVal(42)}

\* a key that clean_record does not know
PassthroughValues == {Absent, StrVal(X_markup)}

RecordKeys == {"title", "content", "author", "date", "tags", "url", "id"}

\* the heap holding one record: the dict is object 1 and its tags list,
\* when tags is a list, object 2
HeapOf(t, c, a, d, g, u, p) ==
    LET all == [k \in RecordKeys |->
                   IF k = "title" THEN t
                   ELSE IF k = "content" THEN c
                   ELSE IF k = "author" THEN a
                   ELSE IF k = "date" THEN d
                   ELSE IF k = "tags"
                   THEN (IF "kind" \in DOMAIN g THEN ListRef(2) ELSE g)
                   ELSE IF k = "url" THEN u
                   ELSE p]
        items == [k \in {x \in RecordKeys : all[x] # Absent} |-> all[k]]
    IN  IF "kind" \in DOMAIN g THEN <<DictObject(items), g>>
        ELSE <<DictObject(items)>>

\* title, date and tags vary together next to fixed other fields, and so do
\* content, author, url and the unknown key
RecordHeaps ==
    {HeapOf(t, StrVal(X_spaced), StrVal(X_encoded_tag), d, g,
            StrVal(U_padded), StrVal(X_markup)) :
        t \in TitleValues, d \in DateValues, g \in TagsValues}
    \cup
    {HeapOf(StrVal(X_markup), c, a, StrVal(D_slash), StrVal(X_spaced), u, p) :
        c \in ContentValues, a \in AuthorValues, u \in RecordUrlValues,
        p \in PassthroughValues}

InitRecord ==
    /\ heap \in RecordHeaps
    /\ heap_before = heap
    /\ input = 1
    /\ output = NotCalled
    /\ ValidatorIdle
    /\ DateIdle
    /\ CleanerIdle
    /\ BatchIdle
    /\ PipelineIdle

\* output = clean_record(record)
CleanRecord ==
    /\ output = NotCalled
    /\ \E r \in {clean_record(heap, input)} :
           /\ heap' = r.heap
           /\ output' = IF r.t = "ok" THEN [t |-> "ok", ref |-> r.ref]
                        ELSE [t |-> "raise", exc |-> r.exc]
    /\ UNCHANGED <<heap_before, input>>
    /\ UNCHANGED <<validatorVars, dateVars, cleanerVars,
                 batchVars, pipelineVars>>

NextRecord == CleanRecord

SpecRecord == InitRecord /\ [][NextRecord]_vars


-----------------------------------------------------------------------------
(* Record cleaner: properties *)

RecordReturned == output.t = "ok"

CleanedKeys == {"title", "content", "author", "date", "tags", "url"}

\* C9: clean_record never mutates its input: once it has returned, every
\* object that existed before the call (the input dict and its tags list)
\* holds what it held before, the dict returned is another object than the
\* input, and every key outside title, content, author, date, tags, url
\* carries the same value in the output as in the input.
C9_InputNotMutated ==
    RecordReturned =>
        /\ \A id \in DOMAIN heap_before : heap[id] = heap_before[id]
        /\ output.ref # input
        /\ \A k \in DOMAIN heap_before[input].items \ CleanedKeys :
              /\ k \in DOMAIN heap[output.ref].items
              /\ heap[output.ref].items[k] = heap_before[input].items[k]

\* C9 witness: clean_record returned for a record with a title to clean, a
\* tags list holding a null element and a passthrough key, and the output
\* differs from the input
C9_Witness ==
    /\ RecordReturned
    /\ DOMAIN heap_before[input].items = RecordKeys
    /\ heap_before[input].items["title"] = StrVal(X_markup)
    /\ heap_before[input].items["tags"].t = "list"
    /\ Len(heap_before[heap_before[input].items["tags"].ref].elems) = 4
    /\ heap[output.ref].items["title"] # heap_before[input].items["title"]
    /\ heap[output.ref].items["tags"] # heap_before[input].items["tags"]

\* YYYY-MM-DD
IsCanonicalDate(s) ==
    /\ Len(s) = 10
    /\ \A k \in {1, 2, 3, 4, 6, 7, 9, 10} : IsDigit(s[k])
    /\ s[5] = "-"
    /\ s[8] = "-"

HasDate(items) == "date" \in DOMAIN items /\ items["date"].t # "none"

\* some text field or tag of the record makes clean_text raise
SomeTextRaises(h, items) ==
    \E val \in {items[f] : f \in {"title", "content", "author"} \cap DOMAIN items}
              \cup (IF "tags" \in DOMAIN items /\ items["tags"].t = "list"
                    THEN Range(h[items["tags"].ref].elems) ELSE {}) :
        val.t # "none" /\ clean_text(PyStr(val)).t = "raise"

\* C10: when date is present and non-null, the output date is the canonical
\* YYYY-MM-DD text if standardize_date succeeds on it and otherwise exactly
\* the input value; the date is never removed or nulled, and clean_record
\* fails only when cleaning a text field or a tag raises, never because of
\* the date.
C10_DateBestEffort ==
    (output.t # "notcalled" /\ HasDate(heap_before[input].items)) =>
        /\ RecordReturned =>
              /\ HasDate(heap[output.ref].items)
              /\ \E parsed \in {standardize_date(
                                    StrVal(PyStr(heap_before[input].items["date"])))} :
                    IF parsed.t = "str"
                    THEN /\ heap[output.ref].items["date"] = parsed
                         /\ IsCanonicalDate(parsed.v)
                    ELSE heap[output.ref].items["date"]
                             = heap_before[input].items["date"]
        /\ (output.t = "raise")
              => SomeTextRaises(heap_before, heap_before[input].items)

\* C10 witness: clean_record returned for a record whose date does not parse
\* and kept the date as it was, next to a title it did clean
C10_Witness ==
    /\ RecordReturned
    /\ HasDate(heap_before[input].items)
    /\ heap_before[input].items["date"] = StrVal(D_unknown_month)
    /\ heap[output.ref].items["date"] = StrVal(D_unknown_month)
    /\ "title" \in DOMAIN heap_before[input].items
    /\ heap_before[input].items["title"] = StrVal(X_markup)


HasUrl(items) == "url" \in DOMAIN items /\ items["url"].t # "none"

\* the url of the input record, as text, without outer whitespace
TrimmedUrl == Strip(PyStr(heap_before[input].items["url"]))

\* C11 as stated: when url is present and non-null, the output url is the
\* trimmed text of the input url if that is non-empty, and the url key is
\* no longer present in the cleaned record when the trimmed text is empty.
C11_BlankUrlAbsent ==
    (RecordReturned /\ HasUrl(heap_before[input].items)) =>
        IF TrimmedUrl # << >>
        THEN /\ "url" \in DOMAIN heap[output.ref].items
             /\ heap[output.ref].items["url"] = StrVal(TrimmedUrl)
        ELSE "url" \notin DOMAIN heap[output.ref].items

\* C11 amended: when url is present and non-null, the url key stays in the
\* cleaned record; its value is the trimmed text of the input url if that is
\* non-empty, and null when the trimmed text is empty.
C11_BlankUrlNull ==
    (RecordReturned /\ HasUrl(heap_before[input].items)) =>
        /\ "url" \in DOMAIN heap[output.ref].items
        /\ heap[output.ref].items["url"] =
              (IF TrimmedUrl # << >> THEN StrVal(TrimmedUrl) ELSE NoneVal)

\* C11 witness: clean_record returned for a record whose url is only
\* whitespace, and the cleaned record holds url with the null value
C11_Witness ==
    /\ RecordReturned
    /\ HasUrl(heap_before[input].items)
    /\ heap_before[input].items["url"] = StrVal(<<" ", " ">>)
    /\ "url" \in DOMAIN heap[output.ref].items
    /\ heap[output.ref].items["url"] = NoneVal


-----------------------------------------------------------------------------
(* Validator: the URL format reason *)

\* every text the URL format block can produce for the urls drawn
InvalidUrlTexts ==
    {"Invalid URL format: '" \o UrlDisplay(Strip(u)) \o "'" :
        u \in WellFormedUrls \cup MalformedUrls \cup BlankTexts}
    \cup {"Invalid URL format: '42'"}

HasInvalidUrlReason ==
    \E k \in DOMAIN result.reasons : result.reasons[k] \in InvalidUrlTexts

UrlMissingNullOrBlank(rec) ==
    \/ "url" \notin DOMAIN rec
    \/ rec["url"].t = "none"
    \/ Strip(PyStr(rec["url"])) = << >>

\* the url text begins with the scheme ftp
HasFtpScheme(rec) ==
    /\ "url" \in DOMAIN rec
    /\ rec["url"].t = "str"
    /\ StartsWithAt(Strip(rec["url"].v), <<"f", "t", "p", ":">>, 1)

\* C12: validate_record appends an "Invalid URL format" reason exactly when
\* the url key is present, its value is non-null, its trimmed text is
\* non-empty and the trimmed text fails validate_url; there is at most one
\* such reason; a url with scheme ftp always gets it, and a missing, null or
\* blank url never does.
C12_UrlReasonExactly ==
    Returned =>
        /\ HasInvalidUrlReason <=>
              /\ ~UrlMissingNullOrBlank(record)
              /\ ~validate_url(Strip(PyStr(record["url"])))
        /\ Cardinality({k \in DOMAIN result.reasons :
                           result.reasons[k] \in InvalidUrlTexts}) <= 1
        /\ HasFtpScheme(record) =>
              /\ ~validate_url(record["url"].v)
              /\ HasInvalidUrlReason
              /\ ~result.is_valid
        /\ UrlMissingNullOrBlank(record) => ~HasInvalidUrlReason

\* C12 witness: the record {title: "T", content: "T", url: "ftp://bad"}
\* validated under the default configuration is invalid with the one reason
\* "Invalid URL format: 'ftp://bad'"
C12_Witness ==
    /\ Returned
    /\ DefaultConfiguration
    /\ record = RecordOf(StrVal(<<"T">>), StrVal(<<"T">>), StrVal(U_ftp_bad))
    /\ result = [is_valid |-> FALSE,
                 reasons |-> <<"Invalid URL format: 'ftp://bad'">>]


-----------------------------------------------------------------------------
(* validator.py: validate_records *)

\* mutant of validate_records: the results come in reverse order
validate_records_Reversed(recs, required, mins) ==
    [i \in 1..Len(recs) |->
        validate_record(recs[Len(recs) + 1 - i], required, mins)]

\* [validate_record(r, required_fields, min_lengths) for r in records]
validate_records(recs, required, mins) ==
    [i \in 1..Len(recs) |-> validate_record(recs[i], required, mins)]

B_valid == RecordOf(StrVal(<<"T">>), StrVal(<<"T">>), StrVal(U_http_a_com))
B_no_title == RecordOf(Absent, StrVal(<<"T">>), StrVal(U_http_a_com))
B_bad_url == RecordOf(StrVal(<<"T">>), StrVal(<<" ", "a", "b", " ">>),
                      StrVal(U_ftp_bad))
B_blank == RecordOf(StrVal(<< >>), NoneVal, IntVal(42))

BatchRecords == {B_valid, B_no_title, B_bad_url, B_blank}

RecordLists == UNION {[1..n -> BatchRecords] : n \in 0..MaxBatch}

InitBatch ==
    /\ records \in RecordLists
    /\ results = NotCalled
    /\ required_fields \in {NoArg, Given(<<"url", "title">>)}
    /\ min_lengths \in {NoArg, Given(<< <<"content", 3>>, <<"title", 2>> >>)}
    /\ record = << >>
    /\ result = NoResult
    /\ op = "none"
    /\ DateIdle
    /\ CleanerIdle
    /\ RecordIdle
    /\ PipelineIdle

\* results = validate_records(records, required_fields, min_lengths)
ValidateRecords ==
    /\ results = NotCalled
    /\ results' = Ok(validate_records(records, required_fields, min_lengths))
    /\ UNCHANGED <<records, validatorVars, dateVars, cleanerVars, recordVars,
                   pipelineVars>>

NextBatch == ValidateRecords

SpecBatch == InitBatch /\ [][NextBatch]_vars

BatchReturned == results.t = "ok"

\* C13: validate_records preserves input order one-to-one: the output has
\* the length of the input, its i-th element is validate_record of the i-th
\* input record under the same configuration, and it is the result that
\* record gets when validated in a list of its own.
C13_OrderPreserved ==
    BatchReturned =>
        /\ Len(results.v) = Len(records)
        /\ \A i \in 1..Len(records) :
              /\ results.v[i]
                    = validate_record(records[i], required_fields, min_lengths)
              /\ <<results.v[i]>>
                    = validate_records(<<records[i]>>, required_fields,
                                       min_lengths)

\* C13 witness: validate_records returned for three records, the first valid
\* and the other two invalid for different reasons
C13_Witness ==
    /\ BatchReturned
    /\ records = <<B_valid, B_bad_url, B_no_title>>
    /\ Len(results.v) = 3
    /\ results.v[1].is_valid
    /\ ~results.v[2].is_valid
    /\ ~results.v[3].is_valid
    /\ results.v[2] # results.v[3]


-----------------------------------------------------------------------------
(* run_pipeline.py: run_pipeline *)

CLEANED_OUTPUT_FILE == "cleaned_output.json"
QUALITY_REPORT_FILE == "quality_report.txt"
RECORD_LIMIT == 10

field_names == <<"title", "content", "url", "date", "author", "tags">>

\* the elements of a set of numbers in ascending order
RECURSIVE Ascending(_)
Ascending(S) ==
    IF S = {} THEN << >>
    ELSE LET m == CHOOSE x \in S : \A y \in S : x <= y
         IN  <<m>> \o Ascending(S \ {m})

\* json.load(f): the dicts of the loaded list, in file order
LoadedRecords(h) == Ascending({id \in DOMAIN h : h[id].kind = "dict"})

\* raw_records[:RECORD_LIMIT]
Limit(seq) ==
    IF Len(seq) > RECORD_LIMIT THEN SubSeq(seq, 1, RECORD_LIMIT) ELSE seq

\* [clean_record(r) for r in raw_records]: the heap afterwards and the ids
\* of the cleaned records, or the exception of the first call that raised
RECURSIVE CleanAll(_, _, _)
CleanAll(h, ids, done) ==
    IF ids = << >> THEN [t |-> "ok", heap |-> h, refs |-> done]
    ELSE Bind(clean_record(h, Head(ids)), LAMBDA r :
             IF r.t = "raise" THEN r
             ELSE CleanAll(r.heap, Tail(ids), Append(done, r.ref)))

\* [validate_record(r) for r in cleaned_records]
ValidateAll(h, refs) ==
    [i \in 1..Len(refs) |-> validate_record(h[refs[i]].items, NoArg, NoArg)]

\* sum(1 for r in validation_results if r.is_valid)
CountValid(vr) == Cardinality({i \in DOMAIN vr : vr[i].is_valid})

\* out = record.copy() with _valid and, when invalid, _validation_reasons
OutputData(h, refs, vr) ==
    [i \in 1..Len(refs) |->
        [items |-> h[refs[i]].items,
         _valid |-> vr[i].is_valid,
         _validation_reasons |->
            IF vr[i].is_valid THEN Absent ELSE Ok(vr[i].reasons)]]

\* the completeness loop: a non-null list, or a text that is not blank
IsComplete(items, f) ==
    /\ f \in DOMAIN items
    /\ \/ items[f].t = "list"
       \/ items[f].t = "str" /\ Strip(items[f].v) # << >>

Completeness(h, refs) ==
    [f \in Range(field_names) |->
        Cardinality({i \in DOMAIN refs : IsComplete(h[refs[i]].items, f)})]

\* failure_counter: how often each reason occurs over all results
FailureCounter(vr) ==
    [r \in UNION {Range(vr[i].reasons) : i \in DOMAIN vr} |->
        Cardinality({p \in UNION {{<<i, k>> : k \in DOMAIN vr[i].reasons} :
                                      i \in DOMAIN vr} :
                        vr[p[1]].reasons[p[2]] = r})]

\* f"{count / total_records * 100:.1f}" in tenths of a percent; division by
\* zero raises
Percent(count, total) ==
    IF total = 0 THEN Raise("ZeroDivisionError")
    ELSE Ok((count * 2000 + total) \div (2 * total))

\* the report: pct is 0 when there are no records
QualityReport(total, valid, invalid, comp, failures) ==
    [total |-> total, valid |-> valid, invalid |-> invalid,
     completeness |->
        [f \in DOMAIN comp |->
            IF total # 0 THEN Percent(comp[f], total).v ELSE 0],
     failures |-> failures]

-----------------------------------------------------------------------------
(* Pipeline: inputs and state machine *)

\* the objects of one loaded record, with list references counted from the
\* place the objects take in the heap
Shifted(objs, k) ==
    [j \in DOMAIN objs |->
        IF objs[j].kind = "dict"
        THEN DictObject([f \in DOMAIN objs[j].items |->
                            IF objs[j].items[f].t = "list"
                            THEN ListRef(objs[j].items[f].ref + k)
                            ELSE objs[j].items[f]])
        ELSE objs[j]]

RECURSIVE LoadedHeap(_)
LoadedHeap(frags) ==
    IF frags = << >> THEN << >>
    ELSE LET front == LoadedHeap(SubSeq(frags, 1, Len(frags) - 1))
         IN  front \o Shifted(frags[Len(frags)], Len(front))

\* a record that cleans to a valid one
P_good ==
    HeapOf(StrVal(X_markup), StrVal(X_spaced), StrVal(X_encoded_tag),
           StrVal(D_slash),
           ListObject(<<StrVal(X_spaced), NoneVal, IntVal(3)>>),
           StrVal(U_padded), Absent)
\* a record whose url is blank
P_blank_url ==
    HeapOf(StrVal(<<"T">>), StrVal(X_spaced), NoneVal, Absent, Absent,
           StrVal(<<" ", " ">>), Absent)
\* a record whose url is not http(s)
P_ftp ==
    HeapOf(StrVal(<<"T">>), StrVal(<<"T">>), NoneVal, NoneVal, Absent,
           StrVal(U_ftp_bad), Absent)
\* a record whose title holds a numeric entity above the last code point
P_too_big ==
    HeapOf(StrVal(X_too_big), StrVal(<<"T">>), NoneVal, Absent, Absent,
           StrVal(U_http_a_com), Absent)

LoadedFragments == {P_good, P_blank_url, P_ftp, P_too_big}

LoadedHeaps ==
    {LoadedHeap(frags) :
        frags \in UNION {[1..n -> LoadedFragments] : n \in 0..MaxLoaded}}

InitPipeline ==
    /\ heap \in LoadedHeaps
    /\ heap_before = heap
    /\ input = 0
    /\ output = NotCalled
    /\ PipelineIdle
    /\ ValidatorIdle
    /\ DateIdle
    /\ CleanerIdle
    /\ BatchIdle

\* run_pipeline() on the loaded list of records
RunPipeline ==
    /\ outcome = NotCalled
    /\ \E raw \in {Limit(LoadedRecords(heap))} :
       \E c \in {CleanAll(heap, raw, << >>)} :
          /\ raw_records' = raw
          /\ heap' = c.heap
          /\ IF c.t = "raise"
             THEN /\ outcome' = Raise(c.exc)
                  /\ UNCHANGED <<cleaned_records, validation_results,
                                 valid_count, invalid_count, written, summary>>
             ELSE \E vr \in {ValidateAll(c.heap, c.refs)} :
                  \E valid \in {CountValid(vr)} :
                  \E total \in {Len(raw)} :
                     /\ cleaned_records' = c.refs
                     /\ validation_results' = vr
                     /\ valid_count' = valid
                     /\ invalid_count' = total - valid
                     /\ written' =
                           {<<CLEANED_OUTPUT_FILE,
                              OutputData(c.heap, c.refs, vr)>>,
                            <<QUALITY_REPORT_FILE,
                              QualityReport(total, valid, total - valid,
                                            Completeness(c.heap, c.refs),
                                            FailureCounter(vr))>>}
                     /\ IF Percent(valid, total).t = "raise"
                        THEN /\ summary' = NotCalled
                             /\ outcome' = Percent(valid, total)
                        ELSE /\ summary' = [valid |-> Percent(valid, total).v,
                                            invalid |->
                                               Percent(total - valid, total).v]
                             /\ outcome' = Ok("done")
    /\ UNCHANGED <<heap_before, input, output>>
    /\ UNCHANGED <<validatorVars, dateVars, cleanerVars, batchVars>>

NextPipeline == RunPipeline

SpecPipeline == InitPipeline /\ [][NextPipeline]_vars

FilesWritten == {w[1] : w \in written}

\* C14: run_pipeline completes normally for every loaded record list, the
\* empty list included: it ends without raising, having written the cleaned
\* output and the quality report and printed the summary percentages, and
\* valid_count + invalid_count is the number of processed records.
C14_PipelineCompletes ==
    (outcome # NotCalled) =>
        /\ outcome.t = "ok"
        /\ FilesWritten = {CLEANED_OUTPUT_FILE, QUALITY_REPORT_FILE}
        /\ summary # NotCalled
        /\ valid_count + invalid_count = Len(raw_records)


====
